---- MODULE Spec2Model ----
(***************************************************************************)
(* The reminder services of reminder-service (src/index.js): five          *)
(* variants of one dispatch engine.  Each variant loads a dedup store,     *)
(* polls the booking provider on a timer and sends one reminder per        *)
(* (booking id, date, time) key when the booking enters its window.        *)
(*                                                                         *)
(* Time is counted in ticks of 1/TicksPerMinute minute since 00:00 UTC of  *)
(* day 0.  Booking dates are day numbers, booking times are minutes of the *)
(* day in the fixed +02:00 zone the code appends to every booking.         *)
(***************************************************************************)
EXTENDS Integers, Sequences, FiniteSets, TLC

\* ------------------------------------------------------------------ bounds

\* clock resolution: ticks per minute (2 = half minutes)
TicksPerMinute == 2
\* longest time, in ticks, that one cycle or approval run stays in flight
MaxCycleTicks == 1
\* activations of one cadence that can be in flight together
MaxCycles == 2
\* process restarts in one behaviour
MaxRestarts == 1
\* reschedules of bookings by the provider in one behaviour
MaxReschedules == 1
\* control-plane requests in a behaviour
MaxRequests == 1
\* characters of the phone numbers formatPhoneNumber is applied to
MaxPhoneLen == 5
\* applications of formatPhoneNumber, each to the result of the one before
MaxApplications == 2
\* recipients or clients a broadcast request lists
MaxRecipients == 2
\* timer periods one behaviour covers (of the confirmation cadence when the
\* behaviour follows it, of the reminder cadence otherwise)
HorizonPeriods == 1

Minute == TicksPerMinute
Hour == 60 * Minute
Day == 24 * Hour

\* ---------------------------------------------------------- program constants

\* 7 * 24 * 60 * 60 * 1000 ms
SEVEN_DAYS == 7 * Day
\* business.reminder_hours_before || 12
DefaultReminderHours == 12
\* 60 * 60 * 1000 ms
ONE_HOUR == 60 * Minute
\* 60 * 1000 ms
ONE_MINUTE == Minute
\* 15 * 60 * 1000 ms, and the slot size of scheduleNextRun
SlotMinutes == 15
\* the +02:00 appended to every booking date and time
ZoneOffset == 2 * Hour

\* ------------------------------------------------------------ the services

\* the five services the repository holds, in source order
Services == {"sms_confirm", "whatsapp", "sms", "whatsapp_api", "email"}

\* services whose window is computed with differenceInHours
HourGranular(svc) == svc \in {"sms_confirm", "email"}

\* services that poll on the :00/:15/:30/:45 slots
ClockAligned(svc) == svc \in {"whatsapp", "whatsapp_api"}

\* half-width of the window of the minute-granular services, in minutes
ToleranceMinutes(svc) == IF svc = "sms" THEN 30 ELSE 10

\* half-width of the window of the hour-granular services, in hours
ToleranceHours == 2

\* interval of the repeating reminder timer
ReminderInterval(svc) == IF ClockAligned(svc) THEN SlotMinutes * Minute ELSE ONE_HOUR

\* ------------------------------------------------------------------ helpers

Min(S) == CHOOSE x \in S : \A y \in S : x <= y

\* Math.trunc of a / b  (b > 0)
Trunc(a, b) == IF a >= 0 THEN a \div b ELSE -((-a) \div b)

\* Math.ceil of a / b  (a >= 0, b > 0)
Ceil(a, b) == (a + b - 1) \div b

\* date-fns differenceInMinutes: whole minutes, rounded towards zero
differenceInMinutes(later, earlier) == Trunc(later - earlier, Minute)

\* date-fns differenceInHours: whole hours, rounded towards zero
differenceInHours(later, earlier) == Trunc(later - earlier, Hour)

\* new Date(`${booking.date}T${booking.time}+02:00`)
bookingDateTime(b) == b.date * Day + b.time * Minute - ZoneOffset

\* a key made of the booking id alone
idOnlyKey(b) == <<b.id, 0, 0>>

\* `${booking.id}-${booking.date}-${booking.time}`
reminderKey(b) == <<b.id, b.date, b.time>>

\* business.reminder_hours_before || 12   (falsy: the field is not set, or
\* it is set to 0)
reminderHours(biz) ==
  IF biz.reminder_hours_before = 0 THEN DefaultReminderHours
  ELSE biz.reminder_hours_before

\* a service that ignores the reminder_enabled flag
enabledRegardless(biz) == TRUE

\* business.reminder_enabled !== false
reminderEnabled(biz) == biz.reminder_enabled # "false"

\* ------------------------------------------------------- trigger window

\* a window whose upper bound is exclusive
strictUpperBound(svc, biz, b, now) ==
  LET minutesUntil == differenceInMinutes(bookingDateTime(b), now)
      targetMinutes == reminderHours(biz) * 60
  IN  /\ minutesUntil >= targetMinutes - ToleranceMinutes(svc)
      /\ minutesUntil < targetMinutes + ToleranceMinutes(svc)

\* a window without its lower bound
withoutLowerBound(svc, biz, b, now) ==
  differenceInMinutes(bookingDateTime(b), now)
    <= reminderHours(biz) * 60 + ToleranceMinutes(svc)

\* the window test of the services that count whole minutes
shouldSendMinutes(svc, biz, b, now) ==
  LET minutesUntil == differenceInMinutes(bookingDateTime(b), now)
      targetMinutes == reminderHours(biz) * 60
      lowerBound == targetMinutes - ToleranceMinutes(svc)
      upperBound == targetMinutes + ToleranceMinutes(svc)
  IN  minutesUntil >= lowerBound /\ minutesUntil <= upperBound

\* the window test of the services that count whole hours
shouldSendHours(biz, b, now) ==
  LET hoursUntil == differenceInHours(bookingDateTime(b), now)
  IN  /\ hoursUntil >= reminderHours(biz) - ToleranceHours
      /\ hoursUntil <= reminderHours(biz) + ToleranceHours

shouldSend(svc, biz, b, now) ==
  IF HourGranular(svc) THEN shouldSendHours(biz, b, now)
  ELSE shouldSendMinutes(svc, biz, b, now)

\* --------------------------------------------------------- the dedup store

\* the backing file: absent, a JSON object of key -> time of the send, or
\* bytes that JSON.parse rejects
NoItems == [k \in {} |-> 0]
MissingFile == [state |-> "missing", items |-> NoItems]
CorruptFile == [state |-> "corrupt", items |-> NoItems]

\* outcomes of the file system calls of one load or save
IoOutcomes == {"ok", "error"}

\* a load that forgets what the file holds
loadNothing(file, now, io) == [set |-> {}, file |-> file, error |-> FALSE]

\* a load that hands out the keys of the file although reading it threw
loadDespiteError(file, now, io) ==
  [set |-> DOMAIN file.items, file |-> file, error |-> file.state # "missing"]

\* loadSentItems: the keys younger than 7 days, written back; the empty set
\* when the file is missing or anything throws (read, parse or write back)
loadSentItems(file, now, io) ==
  IF file.state = "missing" THEN [set |-> {}, file |-> file, error |-> FALSE]
  ELSE IF io = "error" \/ file.state = "corrupt"
    THEN [set |-> {}, file |-> file, error |-> TRUE]
  ELSE LET sevenDaysAgo == now - SEVEN_DAYS
           kept == {k \in DOMAIN file.items : file.items[k] > sevenDaysAgo}
           cleaned == [k \in kept |-> file.items[k]]
       IN  [set |-> kept, file |-> [state |-> "ok", items |-> cleaned],
            error |-> FALSE]

\* a save that writes nothing
saveNothing(file, itemKey, now, io) == file

\* a save that writes the new key alone
saveOnlyKey(file, itemKey, now, io) ==
  IF io = "error" \/ file.state = "corrupt" THEN file
  ELSE [state |-> "ok", items |-> [k \in {itemKey} |-> now]]

\* saveSentItem: items[itemKey] = Date.now(), written back; nothing when
\* anything throws
saveSentItem(file, itemKey, now, io) ==
  IF io = "error" \/ file.state = "corrupt" THEN file
  ELSE [state |-> "ok",
        items |-> [k \in DOMAIN file.items \cup {itemKey} |->
                     IF k = itemKey THEN now ELSE file.items[k]]]

\* ------------------------------------------------------------ one booking

\* a fetch that returns the bookings of every business
fetchEveryTenant(svc, all, businessId, now) == all

\* fetchBookings: the bookings of one business; the whatsapp service keeps
\* only confirmed ones with a phone, dated today .. today + 48 h (UTC dates)
fetchBookings(svc, all, businessId, now) ==
  LET todayStr == now \div Day
      in48HoursStr == (now + 48 * Hour) \div Day
      keep(b) ==
        /\ b.business_id = businessId
        /\ svc = "whatsapp" =>
             /\ b.status = "confirmed"
             /\ b.client_phone
             /\ ~(b.date < todayStr \/ b.date > in48HoursStr)
  IN  SelectSeq(all, keep)

\* a loop body without any check before the window test
anyBooking(svc, b) == TRUE

\* a loop body that does not read whatsapp_notifications_enabled
ignoresOptOut(svc, b) ==
  /\ b.status = "confirmed"
  /\ IF svc = "email" THEN b.client_email ELSE b.client_phone

\* the checks of the loop body that come before the window test
candidate(svc, b) ==
  CASE svc = "whatsapp" -> TRUE
    [] svc = "whatsapp_api" ->
         /\ b.status = "confirmed"
         /\ b.client_phone
         /\ b.whatsapp_notifications_enabled # "false"
    [] svc = "email" -> b.status = "confirmed" /\ b.client_email
    [] OTHER -> b.status = "confirmed" /\ b.client_phone

\* a loop body that sends for every candidate
sendRegardless(svc, biz, b, now, sent) == candidate(svc, b)

\* the sender is invoked for this booking: candidate, in-window, key not sent
wantsSend(svc, biz, b, now, sent) ==
  /\ candidate(svc, b)
  /\ shouldSend(svc, biz, b, now)
  /\ reminderKey(b) \notin sent

\* the for loop over the bookings, from position k to its next await: the
\* position of the next booking a reminder is sent for, Len + 1 when none
nextSend(svc, biz, list, k, now, sent) ==
  LET S == {i \in k..Len(list) : wantsSend(svc, biz, list[i], now, sent)}
  IN  IF S = {} THEN Len(list) + 1 ELSE Min(S)

\* the for loop over the businesses, from position i: the next business
\* whose reminders are enabled, Len + 1 when none
nextEnabled(list, i) ==
  LET S == {j \in i..Len(list) : reminderEnabled(list[j])}
  IN  IF S = {} THEN Len(list) + 1 ELSE Min(S)

\* a schedule that takes the slot of the present minute
sameSlot(now) ==
  LET minutes == (now \div Minute) % 60
      nextSlot == Ceil(minutes, SlotMinutes) * SlotMinutes
      minutesUntilNext == nextSlot - minutes
      msUntilNext == minutesUntilNext * Minute - (now % Minute)
  IN  now + msUntilNext

\* scheduleNextRun: the time of the next :00/:15/:30/:45 slot
scheduleNextRun(now) ==
  LET minutes == (now \div Minute) % 60
      nextSlot == Ceil(minutes + 1, SlotMinutes) * SlotMinutes
      minutesUntilNext == nextSlot - minutes
      msUntilNext == minutesUntilNext * Minute - (now % Minute)
  IN  now + msUntilNext

\* ---------------------------------------------------------------- state

VARIABLES
  service,            \* which of the five services this process runs
  clock,              \* Date.now(), in ticks
  origin,             \* the time the behaviour begins at
  businesses,         \* provider: the Business entities, in list order
  bookings,           \* provider: the Booking entities, in list order
  reschedules,        \* reschedules the provider has made
  up,                 \* the process is running
  starts,             \* process starts so far
  sentReminders,      \* the in-memory Set of reminder keys
  remindersFile,      \* sent-reminders.json
  cycles,             \* activations of checkAndSendReminders, by slot
  reminderTimer,      \* the setTimeout / setInterval of the reminder cadence
  approvalCadence,    \* the behaviour follows the cadence of checkApprovals
  sentConfirmations,  \* the in-memory Set of confirmation keys
  confirmationsFile,  \* sent-confirmations.json
  approvals,          \* activations of checkApprovals, by slot
  approvalTimer,      \* the setInterval of the confirmation cadence
  loadError,          \* history: loadSentItems of this process met an error
  sends,              \* history: the outcomes of the sends, by key and process
  pruned,             \* history: the keys loadSentItems has dropped
  seenUnconfirmed,    \* history: bookings checkApprovals saw not confirmed
  env,                \* the credentials set in process.env
  exits,              \* the exit statuses of the processes so far
  listening,          \* the Express server listens
  http,               \* the control-plane request in progress
  toNumber,           \* a phone number handed to formatPhoneNumber
  formattedNumber     \* what formatPhoneNumber has made of it, by application

providerVars == <<businesses, bookings, reschedules>>
storeVars == <<sentReminders, remindersFile>>
approvalVars == <<approvalCadence, sentConfirmations, confirmationsFile,
                  approvals, approvalTimer>>
historyVars == <<loadError, sends, pruned, seenUnconfirmed>>
apiVars == <<listening, http>>
phoneVars == <<toNumber, formattedNumber>>
vars == <<service, clock, origin, providerVars, up, starts, storeVars, cycles,
          reminderTimer, approvalVars, historyVars, env, exits, apiVars,
          phoneVars>>

\* an activation that is not running
IdleRun == [pc |-> "idle", started |-> 0, businesses |-> <<>>, bi |-> 0,
            bookings |-> <<>>, ki |-> 0, now |-> 0, resp |-> "none", sent |-> 0]

NoTimer == [kind |-> "none", due |-> 0]

Slots == 1..MaxCycles
InFlight(runs) == {c \in Slots : runs[c].pc # "idle"}
FreeSlot(runs) == Min(Slots \ InFlight(runs))

\* ------------------------------------------------------- the first states

\* the quarter hour the scenarios are placed around: 00:15 UTC of day 1
Quarter == Day + SlotMinutes * Minute
\* the process is first started one tick before the quarter hour
FirstStart == Quarter - 1
\* the behaviour ends one minute after the last timer period it covers
MaxTime(svc) == origin + HorizonPeriods * ReminderInterval(svc) + Minute
\* with the confirmation cadence it covers periods of that cadence, and ends
\* when the run of the last period can no longer be in flight
MaxTimeApprovals == origin + HorizonPeriods * ONE_MINUTE + MaxCycleTicks

\* configured lead times (0: not configured)
LeadHours == {0, 1}
\* minutes between a booking and (the quarter hour + its lead time)
Offsets(svc) ==
  IF HourGranular(svc) THEN {-121, 0, 121, 180}
  ELSE IF svc = "sms" THEN {29, 30, 31}
  ELSE {4, 5, 10, 11}
\* the place of the second booking
SecondOffset(svc) ==
  IF HourGranular(svc) THEN 0 ELSE IF svc = "sms" THEN 30 ELSE 10
\* the time of day of a booking placed off minutes after Quarter + lead
TimeOf(hours, off) ==
  SlotMinutes + (IF hours = 0 THEN DefaultReminderHours ELSE hours) * 60 + off + 120
\* the date of every booking: the day of the quarter hour
BookingDay == Quarter \div Day

Business(id, hours, enabled) ==
  [id |-> id, reminder_hours_before |-> hours, reminder_hours_set |-> hours # 0,
   reminder_enabled |-> enabled]
Booking(id, biz, time, status) ==
  [id |-> id, business_id |-> biz, date |-> BookingDay, time |-> time,
   status |-> status, client_phone |-> TRUE, client_email |-> TRUE,
   booked_by_owner |-> FALSE, whatsapp_notifications_enabled |-> "unset"]

\* the provider's data: business 1 with lead time h and booking 1 placed off
\* o1; booking 2 in business 1 (z = 1, business 2 disabled) or in business 2
Scenario(h, o1, z) ==
  /\ businesses = <<Business(1, h, "unset"),
                    Business(2, 1, IF z = 2 THEN "true" ELSE "false")>>
  /\ bookings = <<Booking(1, 1, TimeOf(h, o1), "confirmed"),
                  Booking(2, z, TimeOf(IF z = 1 THEN h ELSE 1, SecondOffset(service)),
                          "confirmed")>>

\* the variables of process.env that hold the credentials of the channels
CredentialNames ==
  {"TWILIO_ACCOUNT_SID", "TWILIO_AUTH_TOKEN", "TWILIO_WHATSAPP_NUMBER",
   "TWILIO_TEMPLATE_SID", "TWILIO_PHONE_NUMBER"}

\* the credentials a service reads from the environment
Required(svc) ==
  CASE svc \in {"whatsapp", "whatsapp_api"} ->
         {"TWILIO_ACCOUNT_SID", "TWILIO_AUTH_TOKEN", "TWILIO_WHATSAPP_NUMBER",
          "TWILIO_TEMPLATE_SID"}
    [] svc = "sms" ->
         {"TWILIO_ACCOUNT_SID", "TWILIO_AUTH_TOKEN", "TWILIO_PHONE_NUMBER"}
    [] OTHER -> {}

configuredRegardless(svc, e) == TRUE

\* the validation at module load: every credential the service reads is set
configured(svc, e) == Required(svc) \subseteq e

\* the services with an Express app
HasApi(svc) == svc \in {"whatsapp", "whatsapp_api"}

\* the shared secret of the control plane
API_KEY == "linedup-whatsapp-2024-secure"
\* the x-api-key header of a request: none, a wrong one, the secret
ApiKeys == {"", "guess", API_KEY}

ControlRoutes == {"/api/send-confirmation", "/api/send-update", "/api/send-broadcast"}
Routes == {"/health"} \cup ControlRoutes

\* the fields a request body can carry
Fields == {"phone", "clientName", "businessName", "date", "time", "message",
           "recipients", "clients", "businessId"}
\* the bodies: every field, all but one, all but the two that name the
\* clients of a broadcast, none
Bodies == {Fields, {}, Fields \ {"clients", "businessId"}}
            \cup {Fields \ {f} : f \in Fields}

\* a recipient of a broadcast: whether it has a phone number, and its
\* whatsappEnabled
Recipients == [phone : BOOLEAN, whatsappEnabled : {"unset", "false"}]
\* the arrays a broadcast can carry as its recipients or clients
RecipientLists == UNION {[1..n -> Recipients] : n \in 0..MaxRecipients}

\* a request: its route, its x-api-key header, the fields of its body that
\* are set, its whatsappEnabled, whether its date is an ISO date, and the
\* array under recipients or clients when the body of a broadcast has one
Requests ==
  [route : Routes \ {"/api/send-broadcast"}, apiKey : ApiKeys, body : Bodies,
   whatsappEnabled : {"unset", "false"}, dateIso : BOOLEAN, list : {<<>>}]
    \cup [route : {"/api/send-broadcast"}, apiKey : ApiKeys, body : Bodies,
          whatsappEnabled : {"unset"}, dateIso : {TRUE}, list : RecipientLists]

\* the recipient of a message that is not part of a broadcast
NoRecipient == [phone |-> TRUE, whatsappEnabled |-> "unset"]

\* no control-plane request is in progress
NoRequest ==
  [pc |-> "idle", served |-> 0, status |-> 0, queue |-> <<>>,
   current |-> NoRecipient, invoked |-> 0, sent |-> 0, failed |-> 0,
   skipped |-> 0,
   req |-> [route |-> "/health", apiKey |-> "", body |-> {},
            whatsappEnabled |-> "unset", dateIso |-> TRUE, list |-> <<>>]]

\* no process is running
NoProcess ==
  /\ reschedules = 0
  /\ up = FALSE
  /\ starts = 0
  /\ sentReminders = {}
  /\ cycles = [c \in Slots |-> IdleRun]
  /\ reminderTimer = NoTimer
  /\ sentConfirmations = {}
  /\ approvals = [c \in Slots |-> IdleRun]
  /\ approvalTimer = NoTimer
  /\ loadError = FALSE
  /\ pruned = {}
  /\ seenUnconfirmed = {}
  /\ exits = <<>>
  /\ listening = FALSE
  /\ http = NoRequest
  /\ formattedNumber = <<>>

\* the environment of a deployed service: every credential is set
Deployed ==
  /\ env = CredentialNames
  /\ toNumber = <<>>

\* no process is running, one tick before the quarter hour
Stopped ==
  /\ clock = FirstStart
  /\ origin = FirstStart
  /\ NoProcess

\* nothing has run yet: no process, no backing file; the behaviour follows
\* the reminder cadence
Fresh ==
  /\ Stopped
  /\ Deployed
  /\ approvalCadence = FALSE
  /\ remindersFile = MissingFile
  /\ confirmationsFile = MissingFile
  /\ sends = {}

Init ==
  /\ service \in Services
  /\ \E h \in LeadHours, o1 \in Offsets(service), z \in {1, 2} : Scenario(h, o1, z)
  /\ Fresh

\* the scenarios in which both bookings are in their window at the first start
InitInWindow ==
  /\ service \in Services
  /\ \E z \in {1, 2} : Scenario(1, SecondOffset(service), z)
  /\ Fresh

\* what can keep a booking from being reminded of: its status, a missing
\* phone, a missing e-mail address, the client's opt-out
Kinds == {"eligible", "pending", "nophone", "noemail", "optout"}
OfKind(b, kind) ==
  CASE kind = "pending" -> [b EXCEPT !.status = "pending"]
    [] kind = "nophone" -> [b EXCEPT !.client_phone = FALSE]
    [] kind = "noemail" -> [b EXCEPT !.client_email = FALSE]
    [] kind = "optout" -> [b EXCEPT !.whatsapp_notifications_enabled = "false"]
    [] kind = "owner" -> [b EXCEPT !.booked_by_owner = TRUE]
    [] OTHER -> b

\* both bookings are in their window at the first start; booking 1 is of any
\* kind, booking 2 belongs to business 2, whose reminders may be disabled
InitEligibility ==
  /\ service \in Services
  /\ \E kind \in Kinds, enabled \in {"true", "false"} :
       /\ businesses = <<Business(1, 1, "unset"), Business(2, 1, enabled)>>
       /\ bookings =
            <<OfKind(Booking(1, 1, TimeOf(1, SecondOffset(service)), "confirmed"), kind),
              Booking(2, 2, TimeOf(1, SecondOffset(service)), "confirmed")>>
  /\ Fresh

\* ------------------------------------------------------- a reminder cycle

\* checkAndSendReminders up to its first await: fetchBusinesses is in flight
newCycle(now) == [IdleRun EXCEPT !.pc = "fetchBusinesses", !.started = now]

\* the loop of checkAndSendReminders from business i to its next await:
\* fetchBookings of the next enabled business, or the end of the cycle
afterBusiness(run, i) ==
  LET j == nextEnabled(run.businesses, i)
  IN  IF j > Len(run.businesses) THEN IdleRun
      ELSE [run EXCEPT !.pc = "fetchBookings", !.bi = j, !.bookings = <<>>,
                       !.ki = 0, !.now = 0, !.resp = "none"]

\* a cycle that ends with the first business that has nothing to send
stopAtEmpty(svc, run, k, sent) ==
  LET biz == run.businesses[run.bi]
      n == nextSend(svc, biz, run.bookings, k, run.now, sent)
  IN  IF n > Len(run.bookings) THEN IdleRun
      ELSE [run EXCEPT !.pc = "send", !.ki = n, !.resp = "pending"]

\* the loop of processBusinessReminders from booking k to its next await:
\* the send of the next booking that wants one, or the next business
afterBooking(svc, run, k, sent) ==
  LET biz == run.businesses[run.bi]
      n == nextSend(svc, biz, run.bookings, k, run.now, sent)
  IN  IF n > Len(run.bookings) THEN afterBusiness(run, run.bi + 1)
      ELSE [run EXCEPT !.pc = "send", !.ki = n, !.resp = "pending"]

\* the key a run is sending
sendingKey(run) == reminderKey(run.bookings[run.ki])

\* a set that never takes the key
forgetKey(sent, key, success) == sent

\* a set that takes the key whatever the sender returned
addAlways(sent, key, success) == sent \cup {key}

\* if (success) sentReminders.add(reminderKey)
afterSend(sent, key, success) == IF success THEN sent \cup {key} ELSE sent

\* a loop that stays on the booking whose send failed
retryAt(run, success) == IF success THEN run.ki + 1 ELSE run.ki

\* the for loop goes on with the booking after the one it sent for
continueAt(run, success) == run.ki + 1

\* if (success) sentCount++
counted(run, success) == [run EXCEPT !.sent = @ + (IF success THEN 1 ELSE 0)]

\* --------------------------------------------------------- an approval run

\* `${booking.id}-confirmed`
confirmationKey(b) == <<b.id, "confirmed">>

\* checkApprovals up to its first await: fetchBusinesses is in flight
newApproval(now) == [IdleRun EXCEPT !.pc = "fetchBusinesses", !.started = now]

\* a loop body that does not look the key up
confirmWithoutLookup(b, list, sent) ==
  /\ b.status = "confirmed"
  /\ b.client_phone
  /\ ~b.booked_by_owner
  /\ \E j \in 1..Len(list) : list[j].id = b.business_id

\* the loop body of checkApprovals sends a confirmation for this booking:
\* confirmed, with a phone, not booked by the owner, key not sent, business
\* found
wantsConfirmation(b, list, sent) ==
  /\ b.status = "confirmed"
  /\ b.client_phone
  /\ ~b.booked_by_owner
  /\ confirmationKey(b) \notin sent
  /\ \E j \in 1..Len(list) : list[j].id = b.business_id

\* the for loop of checkApprovals from position k to its next await: the
\* send of the next booking that wants a confirmation, or the end of the run
afterApproval(run, k, sent) ==
  LET S == {i \in k..Len(run.bookings) :
              wantsConfirmation(run.bookings[i], run.businesses, sent)}
  IN  IF S = {} THEN IdleRun
      ELSE [run EXCEPT !.pc = "send", !.ki = Min(S), !.resp = "pending"]

\* the key an approval run is sending
confirmingKey(run) == confirmationKey(run.bookings[run.ki])

\* the service has the confirmation cadence and the behaviour follows it
RunsApprovals == approvalCadence /\ service = "sms_confirm"

\* the time the behaviour ends at
Horizon == IF RunsApprovals THEN MaxTimeApprovals ELSE MaxTime(service)

\* a start that sets no timer
withoutTimer(svc, now) == NoTimer

\* the timer startService / startServices / startReminderService leaves
firstTimer(svc, now) ==
  IF ClockAligned(svc) THEN [kind |-> "timeout", due |-> scheduleNextRun(now)]
  ELSE [kind |-> "interval", due |-> now + ONE_HOUR]

\* one outcome of a send of this process, for the history
Outcome(key, result) == [key |-> key, life |-> starts, result |-> result]

\* time the process stays down before it is started
Downtimes == {0}

\* a configured process: the store is loaded, the first cycle runs to its
\* first await, the timers are set, the Express server listens
StartConfigured(d, io) ==
  /\ LET now == clock + d
         loaded == loadSentItems(remindersFile, now, io)
         dropped == DOMAIN remindersFile.items \ DOMAIN loaded.file.items
     IN  /\ clock' = now
         /\ sentReminders' = loaded.set
         /\ remindersFile' = loaded.file
         /\ loadError' = loaded.error
         /\ cycles' = [c \in Slots |-> IF c = 1 THEN newCycle(now) ELSE IdleRun]
         /\ reminderTimer' = firstTimer(service, now)
         /\ IF RunsApprovals
            THEN \E ioc \in IoOutcomes :
                   LET loadedc == loadSentItems(confirmationsFile, now, ioc)
                       droppedc == DOMAIN confirmationsFile.items
                                     \ DOMAIN loadedc.file.items
                   IN  /\ sentConfirmations' = loadedc.set
                       /\ confirmationsFile' = loadedc.file
                       /\ approvals' = [c \in Slots |->
                                         IF c = 1 THEN newApproval(now) ELSE IdleRun]
                       /\ approvalTimer' = [kind |-> "interval",
                                            due |-> now + ONE_MINUTE]
                       /\ pruned' = pruned \cup dropped \cup droppedc
            ELSE /\ pruned' = pruned \cup dropped
                 /\ UNCHANGED <<sentConfirmations, confirmationsFile, approvals,
                                approvalTimer>>
  /\ up' = TRUE
  /\ listening' = HasApi(service)
  /\ UNCHANGED exits

\* module load and startService: with a credential missing the process
\* exits with status 1; otherwise the store is loaded, the first cycle runs
\* to its first await, the timer is set and the Express server listens
Start(d, io) ==
  /\ ~up
  /\ clock + d <= Horizon
  /\ starts' = starts + 1
  /\ UNCHANGED <<service, origin, env, http, phoneVars, providerVars,
                 approvalCadence, sends, seenUnconfirmed>>
  /\ IF ~configured(service, env)
     THEN /\ clock' = clock + d
          /\ exits' = Append(exits, 1)
          /\ UNCHANGED <<up, listening, storeVars, cycles, reminderTimer,
                         sentConfirmations, confirmationsFile, approvals,
                         approvalTimer, loadError, pruned>>
     ELSE StartConfigured(d, io)

\* fetchBusinesses returns (the list, or [] on any failure)
FetchBusinessesReturn(c, ok) ==
  /\ up
  /\ cycles[c].pc = "fetchBusinesses"
  /\ LET list == IF ok THEN businesses ELSE <<>>
         run == [cycles[c] EXCEPT !.businesses = list]
     IN  cycles' = [cycles EXCEPT ![c] =
                      IF Len(list) = 0 THEN IdleRun ELSE afterBusiness(run, 1)]
  /\ UNCHANGED <<service, origin, env, exits, apiVars, phoneVars, clock, providerVars, up, starts, storeVars,
                 reminderTimer, approvalVars, historyVars>>

\* fetchBookings returns (the list, or [] on any failure); now = new Date()
FetchBookingsReturn(c, ok) ==
  /\ up
  /\ cycles[c].pc = "fetchBookings"
  /\ LET run == cycles[c]
         biz == run.businesses[run.bi]
         list == IF ok THEN fetchBookings(service, bookings, biz.id, clock) ELSE <<>>
         next == afterBooking(service,
                              [run EXCEPT !.bookings = list, !.now = clock],
                              1, sentReminders)
     IN  cycles' = [cycles EXCEPT ![c] = next]
  /\ UNCHANGED <<service, origin, env, exits, apiVars, phoneVars, clock, providerVars, up, starts, storeVars,
                 reminderTimer, approvalVars, historyVars>>

\* what becomes of the request of a send: the transport accepts the message
\* and the sender reads its answer ("ok"), the transport accepts it and
\* reading the answer throws ("unread"), or it is not accepted ("failed")
SenderOutcomes == {"ok", "unread", "failed"}

\* the request of a send is answered; the sender will return true only when
\* the message was accepted and the answer read
SenderRespond(c, r) ==
  /\ up
  /\ cycles[c].pc = "send"
  /\ cycles[c].resp = "pending"
  /\ cycles' = [cycles EXCEPT ![c].resp = r]
  /\ sends' = sends \cup {Outcome(sendingKey(cycles[c]),
                                  IF r = "failed" THEN "failed" ELSE "accepted")}
  /\ UNCHANGED <<service, origin, env, exits, apiVars, phoneVars, clock, providerVars, up, starts, storeVars,
                 reminderTimer, approvalVars, loadError, pruned, seenUnconfirmed>>

\* a send returns: on success the key is added and saved; the loop goes on
SendReturn(c, io) ==
  /\ up
  /\ cycles[c].pc = "send"
  /\ cycles[c].resp \in SenderOutcomes
  /\ LET run == cycles[c]
         key == sendingKey(run)
         success == run.resp = "ok"
         sent == afterSend(sentReminders, key, success)
         next == afterBooking(service, counted(run, success),
                              continueAt(run, success), sent)
     IN  /\ sentReminders' = sent
         /\ remindersFile' = IF success THEN saveSentItem(remindersFile, key, clock, io)
                             ELSE remindersFile
         /\ sends' = IF success THEN sends \cup {Outcome(key, "success")} ELSE sends
         /\ cycles' = [cycles EXCEPT ![c] = next]
  /\ UNCHANGED <<service, origin, env, exits, apiVars, phoneVars, clock, providerVars, up, starts, reminderTimer,
                 approvalVars, loadError, pruned, seenUnconfirmed>>

\* fetchBusinesses of checkApprovals returns (the list, or [] on any
\* failure): fetchAllBookings is in flight
ApprovalBusinessesReturn(c, ok) ==
  /\ up
  /\ approvals[c].pc = "fetchBusinesses"
  /\ approvals' = [approvals EXCEPT ![c].pc = "fetchAllBookings",
                                    ![c].businesses = IF ok THEN businesses ELSE <<>>]
  /\ UNCHANGED <<service, origin, env, exits, apiVars, phoneVars, clock, providerVars, up, starts, storeVars, cycles,
                 reminderTimer, approvalCadence, sentConfirmations,
                 confirmationsFile, approvalTimer, historyVars>>

\* fetchAllBookings of checkApprovals returns (every booking, or [] on any
\* failure): the loop runs to its first send
ApprovalBookingsReturn(c, ok) ==
  /\ up
  /\ approvals[c].pc = "fetchAllBookings"
  /\ LET list == IF ok THEN bookings ELSE <<>>
         run == [approvals[c] EXCEPT !.bookings = list, !.now = clock]
     IN  /\ approvals' = [approvals EXCEPT ![c] =
                            afterApproval(run, 1, sentConfirmations)]
         /\ seenUnconfirmed' = seenUnconfirmed \cup
              {list[i].id : i \in {j \in 1..Len(list) : list[j].status # "confirmed"}}
  /\ UNCHANGED <<service, origin, env, exits, apiVars, phoneVars, clock, providerVars, up, starts, storeVars, cycles,
                 reminderTimer, approvalCadence, sentConfirmations,
                 confirmationsFile, approvalTimer, loadError, sends, pruned>>

\* the request of a confirmation is answered
ConfirmationRespond(c, r) ==
  /\ up
  /\ approvals[c].pc = "send"
  /\ approvals[c].resp = "pending"
  /\ approvals' = [approvals EXCEPT ![c].resp = r]
  /\ sends' = sends \cup {Outcome(confirmingKey(approvals[c]),
                                  IF r = "failed" THEN "failed" ELSE "accepted")}
  /\ UNCHANGED <<service, origin, env, exits, apiVars, phoneVars, clock, providerVars, up, starts, storeVars, cycles,
                 reminderTimer, approvalCadence, sentConfirmations,
                 confirmationsFile, approvalTimer, loadError, pruned,
                 seenUnconfirmed>>

\* sendConfirmationSMS returns: on success the key is added and saved; the
\* loop goes on with the next booking
ConfirmationReturn(c, io) ==
  /\ up
  /\ approvals[c].pc = "send"
  /\ approvals[c].resp \in SenderOutcomes
  /\ LET run == approvals[c]
         key == confirmingKey(run)
         success == run.resp = "ok"
         sent == afterSend(sentConfirmations, key, success)
     IN  /\ sentConfirmations' = sent
         /\ confirmationsFile' =
              IF success THEN saveSentItem(confirmationsFile, key, clock, io)
              ELSE confirmationsFile
         /\ sends' = IF success THEN sends \cup {Outcome(key, "success")} ELSE sends
         /\ approvals' = [approvals EXCEPT ![c] = afterApproval(run, run.ki + 1, sent)]
  /\ UNCHANGED <<service, origin, env, exits, apiVars, phoneVars, clock, providerVars, up, starts, storeVars, cycles,
                 reminderTimer, approvalCadence, approvalTimer, loadError, pruned,
                 seenUnconfirmed>>

\* the setInterval of checkApprovals fires: a new run starts whatever the
\* earlier ones are doing
ApprovalTimerFire ==
  /\ up
  /\ approvalTimer.kind # "none"
  /\ clock = approvalTimer.due
  /\ InFlight(approvals) # Slots
  /\ approvals' = [approvals EXCEPT ![FreeSlot(approvals)] = newApproval(clock)]
  /\ approvalTimer' = [kind |-> "interval", due |-> clock + ONE_MINUTE]
  /\ UNCHANGED <<service, origin, env, exits, apiVars, phoneVars, clock, providerVars, up, starts, storeVars, cycles,
                 reminderTimer, approvalCadence, sentConfirmations,
                 confirmationsFile, historyVars>>

\* the provider confirms a pending booking
Approve(i) ==
  /\ bookings[i].status = "pending"
  /\ bookings' = [bookings EXCEPT ![i].status = "confirmed"]
  /\ UNCHANGED <<service, origin, env, exits, apiVars, phoneVars, clock, businesses, reschedules, up, starts, storeVars,
                 cycles, reminderTimer, approvalVars, historyVars>>

\* the setTimeout of scheduleNextRun or the setInterval fires: a new cycle
\* starts whatever the earlier ones are doing
ReminderTimerFire ==
  /\ up
  /\ reminderTimer.kind # "none"
  /\ clock = reminderTimer.due
  /\ InFlight(cycles) # Slots
  /\ cycles' = [cycles EXCEPT ![FreeSlot(cycles)] = newCycle(clock)]
  /\ reminderTimer' = [kind |-> "interval", due |-> clock + ReminderInterval(service)]
  /\ UNCHANGED <<service, origin, env, exits, apiVars, phoneVars, clock, providerVars, up, starts, storeVars,
                 approvalVars, historyVars>>

\* the timers that are set, and the time the next of them is due
ActiveTimers == {t \in {reminderTimer, approvalTimer} : t.kind # "none"}
NextDue == Min({t.due : t \in ActiveTimers})

TimerPending == \E t \in ActiveTimers : clock >= t.due

\* time passes while requests are in flight
Tick ==
  /\ up
  /\ InFlight(cycles) \cup InFlight(approvals) # {}
  /\ clock + 1 <= Horizon
  /\ ~TimerPending
  /\ \A c \in InFlight(cycles) : clock + 1 - cycles[c].started <= MaxCycleTicks
  /\ \A c \in InFlight(approvals) :
       clock + 1 - approvals[c].started <= MaxCycleTicks
  /\ clock' = clock + 1
  /\ UNCHANGED <<service, origin, env, exits, apiVars, phoneVars, providerVars, up, starts, storeVars, cycles,
                 reminderTimer, approvalVars, historyVars>>

\* nothing is in flight: time passes until the timer is due
Idle ==
  /\ up
  /\ InFlight(cycles) \cup InFlight(approvals) = {}
  /\ ActiveTimers # {}
  /\ clock < NextDue
  /\ NextDue <= Horizon
  /\ clock' = NextDue
  /\ UNCHANGED <<service, origin, env, exits, apiVars, phoneVars, providerVars, up, starts, storeVars, cycles,
                 reminderTimer, approvalVars, historyVars>>

\* SIGTERM / SIGINT: process.exit(0), whatever is in flight
Shutdown ==
  /\ up
  /\ up' = FALSE
  /\ cycles' = [c \in Slots |-> IdleRun]
  /\ reminderTimer' = NoTimer
  /\ sentReminders' = {}
  /\ approvals' = [c \in Slots |-> IdleRun]
  /\ approvalTimer' = NoTimer
  /\ sentConfirmations' = {}
  /\ loadError' = FALSE
  /\ listening' = FALSE
  /\ http' = NoRequest
  /\ exits' = Append(exits, 0)
  /\ UNCHANGED <<service, origin, env, phoneVars, clock, providerVars, starts,
                 remindersFile,
                 approvalCadence, confirmationsFile, sends, pruned,
                 seenUnconfirmed>>

\* keys whose send returned true in some process
Succeeded == {s.key : s \in {x \in sends : x.result = "success"}}

\* the times a booking of a business can be moved to
RescheduleTimes(i) ==
  LET biz == CHOOSE z \in {businesses[j] : j \in 1..Len(businesses)} :
               z.id = bookings[i].business_id
  IN  {TimeOf(biz.reminder_hours_before, o) : o \in Offsets(service)}

\* the provider moves a booking whose reminder went out to another time of
\* its day
Reschedule(i, t) ==
  /\ reschedules < MaxReschedules
  /\ reminderKey(bookings[i]) \in Succeeded
  /\ bookings[i].time # t
  /\ bookings' = [bookings EXCEPT ![i].time = t]
  /\ reschedules' = reschedules + 1
  /\ UNCHANGED <<service, origin, env, exits, apiVars, phoneVars, clock, businesses, up, starts, storeVars, cycles,
                 reminderTimer, approvalVars, historyVars>>

\* the steps of a running process and of its transport
Engine ==
  \/ \E c \in Slots, ok \in BOOLEAN : FetchBusinessesReturn(c, ok)
  \/ \E c \in Slots, ok \in BOOLEAN : FetchBookingsReturn(c, ok)
  \/ \E c \in Slots, r \in SenderOutcomes : SenderRespond(c, r)
  \/ \E c \in Slots, io \in IoOutcomes : SendReturn(c, io)
  \/ ReminderTimerFire
  \/ Tick
  \/ Idle

\* one process, from its start to the signal that ends it
Next ==
  \/ \E io \in IoOutcomes : starts = 0 /\ Start(0, io)
  \/ Engine
  \/ Shutdown

Spec == Init /\ [][Next]_vars

\* the process is stopped and started again
NextRestart ==
  \/ \E d \in Downtimes, io \in IoOutcomes : starts <= MaxRestarts /\ Start(d, io)
  \/ Engine
  \/ Shutdown

SpecRestart == InitInWindow /\ [][NextRestart]_vars

\* one process runs on while the provider reschedules bookings
NextReschedule ==
  \/ \E io \in IoOutcomes : starts = 0 /\ Start(0, io)
  \/ Engine
  \/ \E i \in 1..Len(bookings) : \E t \in RescheduleTimes(i) : Reschedule(i, t)

SpecReschedule == Init /\ [][NextReschedule]_vars

\* one process over bookings of every kind and a disabled business
SpecEligibility == InitEligibility /\ [][Next]_vars

\* the process is stopped and started again while every write of the
\* backing file goes through
NextDurable ==
  \/ \E d \in Downtimes, io \in IoOutcomes : starts <= MaxRestarts /\ Start(d, io)
  \/ \E c \in Slots, ok \in BOOLEAN : FetchBusinessesReturn(c, ok)
  \/ \E c \in Slots, ok \in BOOLEAN : FetchBookingsReturn(c, ok)
  \/ \E c \in Slots, r \in SenderOutcomes : SenderRespond(c, r)
  \/ \E c \in Slots : SendReturn(c, "ok")
  \/ ReminderTimerFire
  \/ Tick
  \/ Idle
  \/ Shutdown

SpecDurable == InitInWindow /\ [][NextDurable]_vars

\* ages of the records an earlier process left in the reminder file
StoreAges == {6 * Day, SEVEN_DAYS, 8 * Day}

\* the key of the reminder of a booking that is no longer with the provider
OldKey(id) == reminderKey(Booking(id, 1, 0, "confirmed"))

\* the file with the given records, and the history of their sends
StoredFile(items) ==
  /\ remindersFile = [state |-> "ok", items |-> items]
  /\ sends = {Outcome(k, "success") : k \in DOMAIN items}

\* an earlier process has left its reminder file: none, an unparsable one,
\* one record of some age, or a record of 6 days and one of 8 days
InitStore ==
  /\ service \in Services
  /\ Scenario(1, SecondOffset(service), 1)
  /\ Stopped
  /\ Deployed
  /\ approvalCadence = FALSE
  /\ confirmationsFile = MissingFile
  /\ \/ remindersFile = MissingFile /\ sends = {}
     \/ remindersFile = CorruptFile /\ sends = {}
     \/ \E age \in StoreAges :
          StoredFile([k \in {OldKey(8)} |-> FirstStart - age])
     \/ StoredFile([k \in {OldKey(8), OldKey(9)} |->
                      FirstStart - (IF k = OldKey(8) THEN 6 * Day ELSE 8 * Day)])

\* one process that finds what an earlier one left in its store
SpecStore == InitStore /\ [][Next]_vars

\* the steps of the confirmation cadence of a running process
ApprovalEngine ==
  \/ \E c \in Slots, ok \in BOOLEAN : ApprovalBusinessesReturn(c, ok)
  \/ \E c \in Slots, ok \in BOOLEAN : ApprovalBookingsReturn(c, ok)
  \/ \E c \in Slots, r \in SenderOutcomes : ConfirmationRespond(c, r)
  \/ \E c \in Slots, io \in IoOutcomes : ConfirmationReturn(c, io)
  \/ ApprovalTimerFire

\* ages of the record an earlier process left in sent-confirmations.json
RecordAges == {6 * Day, 8 * Day}

\* the SMS+confirmation service with both cadences: booking 1 is confirmed
\* and in its window, booking 2 is pending or booked by the owner; an
\* earlier process may have confirmed booking 1 and recorded it
InitApprovals ==
  /\ service = "sms_confirm"
  /\ approvalCadence = TRUE
  /\ Stopped
  /\ Deployed
  /\ businesses = <<Business(1, 1, "unset")>>
  /\ \E kind \in {"pending", "owner"} :
       bookings = <<Booking(1, 1, TimeOf(1, 0), "confirmed"),
                    OfKind(Booking(2, 1, TimeOf(1, 0), "confirmed"), kind)>>
  /\ remindersFile = MissingFile
  /\ \/ confirmationsFile = MissingFile /\ sends = {}
     \/ \E age \in RecordAges :
          LET key == confirmationKey(bookings[1])
          IN  /\ confirmationsFile =
                   [state |-> "ok", items |-> [k \in {key} |-> FirstStart - age]]
              /\ sends = {Outcome(key, "success")}

\* one process with both cadences while the provider confirms bookings
NextApprovals ==
  \/ \E io \in IoOutcomes : starts = 0 /\ Start(0, io)
  \/ \E c \in Slots, ok \in BOOLEAN : FetchBusinessesReturn(c, ok)
  \/ \E c \in Slots, ok \in BOOLEAN : FetchBookingsReturn(c, ok)
  \/ \E c \in Slots, r \in SenderOutcomes : SenderRespond(c, r)
  \/ \E c \in Slots, io \in IoOutcomes : SendReturn(c, io)
  \/ ApprovalEngine
  \/ Tick
  \/ Idle
  \/ \E i \in 1..Len(bookings) : Approve(i)

SpecApprovals == InitApprovals /\ [][NextApprovals]_vars

\* the times of day 1, from 00:00:00 to 00:59:30, a process is started at
ScheduleStarts == {Day + t : t \in 0..(Hour - 1)}

\* a clock-aligned service is started at any time of the hour
InitSchedule ==
  /\ service \in {svc \in Services : ClockAligned(svc)}
  /\ clock \in ScheduleStarts
  /\ origin = clock
  /\ NoProcess
  /\ Deployed
  /\ Scenario(1, SecondOffset(service), 1)
  /\ approvalCadence = FALSE
  /\ remindersFile = MissingFile
  /\ confirmationsFile = MissingFile
  /\ sends = {}

\* one process of a clock-aligned service, started at any time of the hour
SpecSchedule == InitSchedule /\ [][Next]_vars

\* the services that poll on a fixed interval from their start
FixedInterval == {svc \in Services : ~ClockAligned(svc)}

\* a fixed-interval service is started with both bookings in their window;
\* the SMS+confirmation service with or without its confirmation cadence
InitFixedInterval ==
  /\ service \in FixedInterval
  /\ Scenario(1, SecondOffset(service), 1)
  /\ Stopped
  /\ Deployed
  /\ approvalCadence \in {FALSE, service = "sms_confirm"}
  /\ remindersFile = MissingFile
  /\ confirmationsFile = MissingFile
  /\ sends = {}

\* one process with all its cadences, to the signal that ends it
NextFixedInterval ==
  \/ \E io \in IoOutcomes : starts = 0 /\ Start(0, io)
  \/ Engine
  \/ ApprovalEngine
  \/ Shutdown

\* the event loop runs the callback of a timer that is due
SpecFixedInterval ==
  /\ InitFixedInterval
  /\ [][NextFixedInterval]_vars
  /\ WF_vars(ReminderTimerFire)
  /\ WF_vars(ApprovalTimerFire)

\* business 1 has its lead time not set, set to 0 or set to 1 hour; its
\* booking is placed around the quarter hour plus the lead time the service
\* takes for it
InitLead ==
  /\ service \in Services
  /\ \E h \in LeadHours, set \in BOOLEAN, o1 \in Offsets(service) :
       /\ h # 0 => set
       /\ businesses = <<[Business(1, h, "unset") EXCEPT !.reminder_hours_set = set],
                         Business(2, 1, "false")>>
       /\ bookings = <<Booking(1, 1, TimeOf(h, o1), "confirmed"),
                       Booking(2, 1, TimeOf(h, SecondOffset(service)), "confirmed")>>
  /\ Fresh

\* one process over businesses with and without a configured lead time
SpecLead == InitLead /\ [][Next]_vars

\* the hours of day 1 (UTC) whose first quarter hour the process is started
\* just before
PrefilterHours == {0, 12, 21, 23}
\* lead times a business can be configured with, up to the 48 hours the
\* candidate filter of the WhatsApp service looks ahead
PrefilterLeads == {1, 24, 46, 47, 48}
\* minutes between a booking and (the quarter hour + its lead time)
PrefilterOffsets == {-10, 0, 10}

\* a booking of a business at an instant: its date and its time of day are
\* those of the +02:00 zone
BookingAt(id, biz, instant) ==
  [Booking(id, biz, ((instant + ZoneOffset) % Day) \div Minute, "confirmed")
     EXCEPT !.date = (instant + ZoneOffset) \div Day]

\* the WhatsApp service is started just before a quarter hour of any part of
\* the day; the bookings of business 1 are in the window of its lead time
\* at that quarter hour
InitPrefilter ==
  /\ service = "whatsapp"
  /\ \E k \in PrefilterHours, h \in PrefilterLeads, o1 \in PrefilterOffsets :
       LET quarter == Quarter + k * Hour
       IN  /\ clock = quarter - 1
           /\ businesses = <<Business(1, h, "unset"), Business(2, 1, "false")>>
           /\ bookings = <<BookingAt(1, 1, quarter + (h * 60 + o1) * Minute),
                           BookingAt(2, 1, quarter + h * 60 * Minute)>>
  /\ origin = clock
  /\ NoProcess
  /\ Deployed
  /\ approvalCadence = FALSE
  /\ remindersFile = MissingFile
  /\ confirmationsFile = MissingFile
  /\ sends = {}

\* one process of the WhatsApp service over bookings up to 48 hours ahead
SpecPrefilter == InitPrefilter /\ [][Next]_vars

\* ------------------------------------------------------- phone numbers

\* a string is the sequence of its characters; null, undefined and '' are
\* the empty sequence
Digits == {"0", "1", "2", "3", "4", "5", "6", "7", "8", "9"}

\* phone.replace(/\D/g, '')
stripNonDigits(phone) == SelectSeq(phone, LAMBDA ch : ch \in Digits)

\* cleaned.startsWith(prefix)
startsWith(cleaned, prefix) ==
  /\ Len(cleaned) >= Len(prefix)
  /\ SubSeq(cleaned, 1, Len(prefix)) = prefix

\* Israel's country code
CountryCode == <<"9", "7", "2">>

\* a formatter that adds the country code to every number
alwaysPrefixed(phone) ==
  IF phone = <<>> THEN <<>>
  ELSE <<"+">> \o CountryCode \o stripNonDigits(phone)

\* formatPhoneNumber of the SMS services
formatPhoneNumber(phone) ==
  IF phone = <<>> THEN <<>>
  ELSE LET digits == stripNonDigits(phone)
           local == IF startsWith(digits, <<"0">>) THEN Tail(digits) ELSE digits
           cleaned == IF ~startsWith(local, CountryCode) THEN CountryCode \o local
                      ELSE local
       IN  <<"+">> \o cleaned

\* the characters the numbers are written with, and the numbers: every
\* string of up to MaxPhoneLen of them, '050-123-4567' and '0501234567'
PhoneChars == {"0", "9", "7", "2", "5", "-", "+"}
Dashed == <<"0", "5", "0", "-", "1", "2", "3", "-", "4", "5", "6", "7">>
Undashed == <<"0", "5", "0", "1", "2", "3", "4", "5", "6", "7">>
PhoneNumbers ==
  UNION {[1..n -> PhoneChars] : n \in 0..MaxPhoneLen} \cup {Dashed, Undashed}

\* an SMS service and a number its sender is handed
InitPhone ==
  /\ service \in {"sms_confirm", "sms"}
  /\ Scenario(1, SecondOffset(service), 1)
  /\ Stopped
  /\ env = CredentialNames
  /\ toNumber \in PhoneNumbers
  /\ approvalCadence = FALSE
  /\ remindersFile = MissingFile
  /\ confirmationsFile = MissingFile
  /\ sends = {}

\* formatPhoneNumber is applied to the number, then to its own result
FormatPhone ==
  /\ Len(formattedNumber) < MaxApplications
  /\ formattedNumber' =
       Append(formattedNumber,
              formatPhoneNumber(IF formattedNumber = <<>> THEN toNumber
                                ELSE formattedNumber[Len(formattedNumber)]))
  /\ UNCHANGED <<service, origin, env, exits, apiVars, toNumber, clock,
                 providerVars, up, starts, storeVars, cycles, reminderTimer,
                 approvalVars, historyVars>>

NextPhone == FormatPhone

SpecPhone == InitPhone /\ [][NextPhone]_vars

\* the business ids a booking can carry: the two listed ones and one that
\* is not listed
TenantIds == {1, 2, 3}

\* two tenants: business 1 with a lead time of 1 hour, business 2 with a
\* lead time of 1 or 12 hours, enabled or not; booking 1 belongs to business
\* 1, booking 2 to any tenant; each is placed in the window of a lead time
\* of 1 or of 12 hours
InitTenants ==
  /\ service \in Services
  /\ \E h2 \in LeadHours, e2 \in {"unset", "false"}, z \in TenantIds,
        t1 \in LeadHours, t2 \in LeadHours :
       /\ businesses = <<Business(1, 1, "unset"), Business(2, h2, e2)>>
       /\ bookings = <<Booking(1, 1, TimeOf(t1, SecondOffset(service)), "confirmed"),
                       Booking(2, z, TimeOf(t2, SecondOffset(service)), "confirmed")>>
  /\ Stopped
  /\ Deployed
  /\ approvalCadence \in {FALSE, service = "sms_confirm"}
  /\ remindersFile = MissingFile
  /\ confirmationsFile = MissingFile
  /\ sends = {}

\* one process with all its cadences over the bookings of several tenants
SpecTenants == InitTenants /\ [][NextFixedInterval]_vars

\* ------------------------------------------------------ the control plane

\* the middleware authenticateApiKey lets the request through
authenticateApiKey(req) == ~(req.apiKey = "" \/ req.apiKey # API_KEY)

\* the middleware in front of a route: only the WhatsApp service has one, on
\* its three POST routes
authorized(svc, req) ==
  IF svc = "whatsapp" /\ req.route \in ControlRoutes
  THEN authenticateApiKey(req) ELSE TRUE

\* the fields a handler tests before it does anything else with the body
RequiredFields(svc, route) ==
  CASE route = "/api/send-confirmation" ->
         {"phone", "clientName", "businessName", "date", "time"}
    [] route = "/api/send-update" -> {"phone", "clientName", "businessName"}
    [] route = "/api/send-broadcast" ->
         IF svc = "whatsapp" THEN {"recipients", "message"}
         ELSE {"businessName", "message"}
    [] OTHER -> {}

\* the handler has answered with a status
answered(h, req, status) ==
  [h EXCEPT !.pc = "done", !.req = req, !.status = status, !.queue = <<>>]

\* the handler awaits the transport for the message to one recipient, the
\* rest of the loop still ahead
sending(h, req, to, rest) ==
  [h EXCEPT !.pc = "send", !.req = req, !.current = to, !.queue = rest,
            !.invoked = @ + 1]

RECURSIVE broadcastFrom(_, _, _)
\* the loop of a broadcast over the recipients it has not served yet: one
\* without a phone number is counted as failed without a call to the
\* transport, the first one with a number is sent to; after the last one
\* the counts are the answer
broadcastFrom(h, req, queue) ==
  IF queue = <<>> THEN answered(h, req, 200)
  ELSE IF ~Head(queue).phone
  THEN broadcastFrom([h EXCEPT !.failed = @ + 1], req, Tail(queue))
  ELSE sending(h, req, Head(queue), Tail(queue))

\* POST /api/send-confirmation and /api/send-update of the WhatsApp service
\* behind their middleware: fields, opt-out, send
sendOneWhatsapp(h, req) ==
  IF ~(RequiredFields("whatsapp", req.route) \subseteq req.body)
  THEN answered(h, req, 400)
  ELSE IF req.whatsappEnabled = "false" THEN answered(h, req, 200)
  ELSE sending(h, req, NoRecipient, <<>>)

\* POST /api/send-confirmation and /api/send-update of the WhatsApp+API
\* service: opt-out, fields, the date of a confirmation, send
sendOneWhatsappApi(h, req) ==
  IF req.whatsappEnabled = "false" THEN answered(h, req, 200)
  ELSE IF ~(RequiredFields("whatsapp_api", req.route) \subseteq req.body)
  THEN answered(h, req, 400)
  ELSE IF req.route = "/api/send-confirmation" /\ ~req.dateIso
  THEN answered(h, req, 500)
  ELSE sending(h, req, NoRecipient, <<>>)

\* POST /api/send-broadcast of the WhatsApp service: a non-empty array of
\* recipients, a message, the loop over every recipient
sendBroadcastWhatsapp(h, req) ==
  IF ~(RequiredFields("whatsapp", req.route) \subseteq req.body)
       \/ req.list = <<>>
  THEN answered(h, req, 400)
  ELSE broadcastFrom(h, req, req.list)

\* the second half of the broadcast of the WhatsApp+API service: no client
\* is a 400, the clients who opted out are counted as skipped, the loop
\* goes over the others
broadcastTo(h, req, clientList) ==
  IF clientList = <<>> THEN answered(h, req, 400)
  ELSE LET enabled(c) == c.whatsappEnabled # "false"
           enabledClients == SelectSeq(clientList, enabled)
       IN  broadcastFrom(
             [h EXCEPT !.skipped = Len(clientList) - Len(enabledClients)],
             req, enabledClients)

\* POST /api/send-broadcast of the WhatsApp+API service: fields, the client
\* list of the body or of the bookings of the business, the loop
sendBroadcastWhatsappApi(h, req) ==
  IF ~(RequiredFields("whatsapp_api", req.route) \subseteq req.body)
  THEN answered(h, req, 400)
  ELSE IF "clients" \in req.body THEN broadcastTo(h, req, req.list)
  ELSE IF "businessId" \in req.body
  THEN [h EXCEPT !.pc = "fetchClients", !.req = req]
  ELSE answered(h, req, 400)

\* a request from its arrival to its answer or its first await
handle(svc, h, req) ==
  IF ~authorized(svc, req) THEN answered(h, req, 401)
  ELSE IF req.route = "/health" THEN answered(h, req, 200)
  ELSE IF req.route = "/api/send-broadcast"
  THEN IF svc = "whatsapp" THEN sendBroadcastWhatsapp(h, req)
       ELSE sendBroadcastWhatsappApi(h, req)
  ELSE IF svc = "whatsapp" THEN sendOneWhatsapp(h, req)
  ELSE sendOneWhatsappApi(h, req)

\* the Express server takes a request in
HttpRequest(req) ==
  /\ up
  /\ listening
  /\ http.pc \in {"idle", "done"}
  /\ http.served < MaxRequests
  /\ http' = handle(service, [NoRequest EXCEPT !.served = http.served + 1], req)
  /\ UNCHANGED <<service, origin, env, exits, listening, phoneVars, clock,
                 providerVars, up, starts, storeVars, cycles, reminderTimer,
                 approvalVars, historyVars>>

\* the clients of a broadcast without a client list: one for each booking of
\* the business with a phone number, opted in unless the booking says false
uniqueClients(list) ==
  LET hasPhone(b) == b.client_phone
      withPhone == SelectSeq(list, hasPhone)
  IN  [i \in 1..Len(withPhone) |->
         [phone |-> TRUE,
          whatsappEnabled |-> withPhone[i].whatsapp_notifications_enabled]]

\* fetchBookings of a broadcast returns (the list, or [] on any failure)
HttpClientsReturn(ok) ==
  /\ up
  /\ http.pc = "fetchClients"
  /\ LET list == IF ok THEN fetchBookings(service, bookings, businesses[1].id, clock)
                 ELSE <<>>
     IN  http' = broadcastTo(http, http.req, uniqueClients(list))
  /\ UNCHANGED <<service, origin, env, exits, listening, phoneVars, clock,
                 providerVars, up, starts, storeVars, cycles, reminderTimer,
                 approvalVars, historyVars>>

\* the transport delivered the message of a handler: a single send needs it
\* accepted and its answer read; the broadcast loop of the WhatsApp service
\* looks at response.ok alone
delivered(svc, route, r) ==
  IF svc = "whatsapp" /\ route = "/api/send-broadcast" THEN r # "failed"
  ELSE r = "ok"

\* the transport answers the message a handler is waiting for: a single send
\* is answered with 200 or 500, a broadcast counts and goes on
HttpSenderRespond(r) ==
  /\ up
  /\ http.pc = "send"
  /\ LET good == delivered(service, http.req.route, r)
         h == [http EXCEPT !.sent = @ + (IF good THEN 1 ELSE 0),
                           !.failed = @ + (IF good THEN 0 ELSE 1)]
     IN  http' = IF http.req.route = "/api/send-broadcast"
                 THEN broadcastFrom(h, h.req, h.queue)
                 ELSE answered(h, h.req, IF good THEN 200 ELSE 500)
  /\ UNCHANGED <<service, origin, env, exits, listening, phoneVars, clock,
                 providerVars, up, starts, storeVars, cycles, reminderTimer,
                 approvalVars, historyVars>>

\* a service with an Express app is started with both bookings in their
\* window
InitApi ==
  /\ service \in {svc \in Services : HasApi(svc)}
  /\ Scenario(1, SecondOffset(service), 1)
  /\ Fresh

\* one process and the requests its control plane takes in
NextApi ==
  \/ \E io \in IoOutcomes : starts = 0 /\ Start(0, io)
  \/ \E req \in Requests : HttpRequest(req)
  \/ \E ok \in BOOLEAN : HttpClientsReturn(ok)
  \/ \E r \in SenderOutcomes : HttpSenderRespond(r)
  \/ Shutdown

SpecApi == InitApi /\ [][NextApi]_vars

\* a service is started in an environment with any of the credentials set
InitConfig ==
  /\ service \in Services
  /\ env \in SUBSET CredentialNames
  /\ toNumber = <<>>
  /\ Scenario(1, SecondOffset(service), 1)
  /\ Stopped
  /\ approvalCadence = FALSE
  /\ remindersFile = MissingFile
  /\ confirmationsFile = MissingFile
  /\ sends = {}

\* one process in any environment
SpecConfig == InitConfig /\ [][Next]_vars

\* ------------------------------------------------------------ the claims

\* the step invokes the sender for the booking run c has reached
Invoked(c) ==
  /\ cycles'[c] # cycles[c]
  /\ cycles'[c].pc = "send"
  /\ cycles'[c].resp = "pending"

\* the step is the return of a send that returns false to run c
FailedReturn(c) ==
  /\ up'
  /\ cycles[c].pc = "send"
  /\ cycles[c].resp \in {"failed", "unread"}
  /\ cycles'[c] # cycles[c]

\* the step is the transport accepting the message of run c
Accepted(c) ==
  /\ cycles[c].pc = "send"
  /\ cycles[c].resp = "pending"
  /\ cycles'[c].pc = "send"
  /\ cycles'[c].resp \in {"ok", "unread"}

\* the business a booking belongs to
businessOf(b) ==
  CHOOSE z \in {businesses[j] : j \in 1..Len(businesses)} : z.id = b.business_id

C2_RecordOnlyAfterSuccess ==
  [][/\ sentReminders' \cup DOMAIN remindersFile'.items
          \subseteq {s.key : s \in {x \in sends' : x.result = "success"}}
     /\ \A c \in Slots : FailedReturn(c) => UNCHANGED storeVars]_vars

\* C2: one send has failed and returned and left no record, another has
\* succeeded and is in the set and in the file
C2_Witness ==
  /\ \E s \in sends :
       /\ s.result = "failed"
       /\ s.key \notin sentReminders \cup DOMAIN remindersFile.items
       /\ \A c \in Slots : cycles[c].pc = "send" => sendingKey(cycles[c]) # s.key
  /\ \E s \in sends :
       /\ s.result = "success"
       /\ s.key \in sentReminders \cap DOMAIN remindersFile.items

\* whole minutes from now to a booking, rounded towards zero
wholeMinutesUntil(b, now) ==
  LET d == bookingDateTime(b) - now
  IN  IF d >= 0 THEN d \div Minute ELSE -((-d) \div Minute)

\* the range C3 states: target - tolerance <= minutesUntil <= target + tolerance
inMinuteRange(b, biz, now) ==
  LET tolerance == IF service = "sms" THEN 30 ELSE 10
      target == reminderHours(biz) * 60
  IN  /\ target - tolerance <= wholeMinutesUntil(b, now)
      /\ wholeMinutesUntil(b, now) <= target + tolerance

\* C3: in the minute-granular services a booking is judged in-window at a
\* time exactly when its whole-minute distance lies in
\* [target - tolerance, target + tolerance], both ends included, and every
\* send in flight is for a booking inside that range at its cycle's now.
C3_MinuteWindowInclusive ==
  ~HourGranular(service) =>
    /\ \A i \in 1..Len(bookings) :
         shouldSend(service, businessOf(bookings[i]), bookings[i], clock)
           <=> inMinuteRange(bookings[i], businessOf(bookings[i]), clock)
    /\ \A c \in Slots :
         cycles[c].pc = "send" =>
           inMinuteRange(cycles[c].bookings[cycles[c].ki],
                         cycles[c].businesses[cycles[c].bi], cycles[c].now)

\* C3: a send is in flight for a booking exactly target + tolerance whole
\* minutes after its cycle's now
C3_Witness ==
  /\ ~HourGranular(service)
  /\ \E c \in Slots :
       /\ cycles[c].pc = "send"
       /\ wholeMinutesUntil(cycles[c].bookings[cycles[c].ki], cycles[c].now)
            = reminderHours(cycles[c].businesses[cycles[c].bi]) * 60
                + (IF service = "sms" THEN 30 ELSE 10)

\* C4, as stated: in the hour-granular services, with lead time L hours and
\* tolerance T = 120 minutes, a booking exactly L*60 minutes ahead is judged
\* in-window and one L*60 + T + 1 or L*60 - T - 1 minutes ahead is not.
C4_HourWindowAsStated ==
  HourGranular(service) =>
    \A i \in 1..Len(bookings) :
      LET b == bookings[i]
          biz == businessOf(b)
          ahead == bookingDateTime(b) - clock
          L == reminderHours(biz)
          T == 120
      IN  /\ ahead = L * 60 * Minute => shouldSend(service, biz, b, clock)
          /\ ahead = (L * 60 + T + 1) * Minute => ~shouldSend(service, biz, b, clock)
          /\ ahead = (L * 60 - T - 1) * Minute => ~shouldSend(service, biz, b, clock)

\* C5, as stated: within one process the transport accepts at most one
\* reminder per (booking id, date, time), whatever the interleaving of the
\* cycles of the startup call and of the timers.
C5_OneSendPerProcess ==
  [][\A c \in Slots :
       Accepted(c) => Outcome(sendingKey(cycles[c]), "accepted") \notin sends]_vars

\* C6, as stated: checkAndSendReminders is never started while an earlier
\* run of it is still awaiting a fetch or a send.
C6_NoOverlap == Cardinality(InFlight(cycles)) <= 1

\* C7, as stated: after a shutdown and the next start the sender is never
\* invoked for a key whose message the transport accepted in an earlier
\* process.
C7_AbandonKeepsAtMostOnce ==
  [][\A c \in Slots :
       Invoked(c) =>
         ~\E s \in sends : /\ s.key = sendingKey(cycles'[c])
                           /\ s.result = "accepted"
                           /\ s.life < starts]_vars

windowPassed(b, biz, now) ==
  IF HourGranular(service)
    THEN differenceInHours(bookingDateTime(b), now) < reminderHours(biz) - 2
    ELSE wholeMinutesUntil(b, now)
           < reminderHours(biz) * 60 - (IF service = "sms" THEN 30 ELSE 10)

C10_FailedSendLeftToNextCycle ==
  [][\A c \in Slots :
       /\ FailedReturn(c) =>
            /\ UNCHANGED storeVars
            /\ cycles'[c].pc = "send" /\ cycles'[c].bi = cycles[c].bi
                 => cycles'[c].ki > cycles[c].ki
       /\ Invoked(c) =>
            LET b == cycles'[c].bookings[cycles'[c].ki]
            IN  /\ candidate(service, b)
                /\ shouldSend(service, cycles'[c].businesses[cycles'[c].bi], b,
                              cycles'[c].now)]_vars

\* C10: a cycle started by a timer, a full interval after the start of the
\* process, sends for a key whose send failed before and left no record
C10_Witness ==
  \E c \in Slots :
    /\ cycles[c].pc = "send"
    /\ cycles[c].resp = "pending"
    /\ cycles[c].started >= FirstStart + ReminderInterval(service)
    /\ sendingKey(cycles[c]) \notin sentReminders
    /\ \E s \in sends : s.key = sendingKey(cycles[c]) /\ s.result = "failed"

\* every key the history, the in-memory set or the backing file knows of
KnownKeys ==
  {s.key : s \in sends} \cup sentReminders \cup DOMAIN remindersFile.items

\* the booking has the contact the channel of the service needs
hasContact(svc, b) == IF svc = "email" THEN b.client_email ELSE b.client_phone

\* C11: a business whose reminder_enabled is false has its bookings neither
\* fetched nor sent for: no cycle is ever fetching the bookings of such a
\* business or sending for one of them, and no send and no record carries
\* the key of one of its bookings.
C11_DisabledBusinessUntouched ==
  /\ \A c \in Slots :
       cycles[c].pc \in {"fetchBookings", "send"}
         => cycles[c].businesses[cycles[c].bi].reminder_enabled # "false"
  /\ \A i \in 1..Len(bookings) :
       businessOf(bookings[i]).reminder_enabled = "false"
         => reminderKey(bookings[i]) \notin KnownKeys

\* C11: a cycle has run to its end, business 2 is disabled while its booking
\* is confirmed, has a contact and is in its window, and the booking of the
\* enabled business was sent for
C11_Witness ==
  /\ up
  /\ InFlight(cycles) = {}
  /\ businesses[2].reminder_enabled = "false"
  /\ bookings[2].business_id = 2
  /\ candidate(service, bookings[2])
  /\ shouldSend(service, businesses[2], bookings[2], clock)
  /\ reminderKey(bookings[1]) \in Succeeded
  /\ reminderKey(bookings[2]) \notin KnownKeys

\* C12: a send is only ever under way for a booking the cycle fetched with
\* status confirmed and with the contact of the channel, and no send and no
\* record carries the key of a booking that is not confirmed or has no such
\* contact.
C12_OnlyConfirmedWithContact ==
  /\ \A c \in Slots :
       cycles[c].pc = "send"
         => LET b == cycles[c].bookings[cycles[c].ki]
            IN  b.status = "confirmed" /\ hasContact(service, b)
  /\ \A i \in 1..Len(bookings) :
       ~(bookings[i].status = "confirmed" /\ hasContact(service, bookings[i]))
         => reminderKey(bookings[i]) \notin KnownKeys

\* C12: booking 1 is in its window but not confirmed or without the contact
\* of the channel, the cycle has passed it and is sending for booking 2
C12_Witness ==
  /\ ~(bookings[1].status = "confirmed" /\ hasContact(service, bookings[1]))
  /\ shouldSend(service, businesses[1], bookings[1], clock)
  /\ reminderKey(bookings[1]) \notin KnownKeys
  /\ \E c \in Slots :
       /\ cycles[c].pc = "send"
       /\ cycles[c].bi = 2
       /\ cycles[c].bookings[cycles[c].ki].id = 2

\* the step invokes the sender for the booking approval run c has reached
InvokedConfirmation(c) ==
  /\ approvals'[c] # approvals[c]
  /\ approvals'[c].pc = "send"
  /\ approvals'[c].resp = "pending"

\* C13, as stated: after a confirmation for a booking succeeded and its key
\* was recorded, no later run of checkApprovals, of the same process or of a
\* later one, sends a confirmation for that booking while it stays
\* confirmed.
C13_ConfirmedAtMostOnce ==
  [][\A c \in Slots :
       InvokedConfirmation(c)
         => confirmingKey(approvals'[c]) \notin Succeeded]_vars

\* C14, as stated: a confirmation is only sent for a booking that is not
\* booked by the owner and that an earlier run of checkApprovals saw not
\* confirmed; a booking confirmed before the service first saw it gets none.
C14_OnlyNewlyConfirmed ==
  [][\A c \in Slots :
       InvokedConfirmation(c)
         => LET b == approvals'[c].bookings[approvals'[c].ki]
            IN  ~b.booked_by_owner /\ b.id \in seenUnconfirmed]_vars

\* C15: the two cadences keep to their own store.  A step of a reminder
\* cycle leaves sentConfirmations and sent-confirmations.json unchanged and
\* a step of an approval run leaves sentReminders and sent-reminders.json
\* unchanged; a reminder is sent exactly for the bookings that want one by
\* sentReminders and a confirmation exactly for those that want one by
\* sentConfirmations, whatever the other set holds; the keys of the two
\* stores are never mixed.
C15_CadencesIndependent ==
  [][/\ up /\ up' /\ cycles' # cycles
          => UNCHANGED <<sentConfirmations, confirmationsFile, approvals>>
     /\ up /\ up' /\ approvals' # approvals
          => UNCHANGED <<sentReminders, remindersFile, cycles>>
     /\ \A c \in Slots :
          Invoked(c) => sendingKey(cycles'[c]) \notin sentReminders'
     /\ \A c \in Slots :
          InvokedConfirmation(c)
            => confirmingKey(approvals'[c]) \notin sentConfirmations'
     /\ \A c \in Slots :
          /\ up' /\ cycles[c].pc = "send" /\ cycles[c].resp # "pending"
               /\ cycles'[c] # cycles[c]
               => cycles'[c] = afterBooking(service,
                                            counted(cycles[c], cycles[c].resp = "ok"),
                                            cycles[c].ki + 1, sentReminders')
          /\ up' /\ approvals[c].pc = "send" /\ approvals[c].resp # "pending"
               /\ approvals'[c] # approvals[c]
               => approvals'[c] = afterApproval(approvals[c], approvals[c].ki + 1,
                                                sentConfirmations')
     /\ sentReminders' \cup DOMAIN remindersFile'.items
          \subseteq {reminderKey(bookings'[i]) : i \in 1..Len(bookings')}
     /\ sentConfirmations' \cup DOMAIN confirmationsFile'.items
          \subseteq {confirmationKey(bookings'[i]) : i \in 1..Len(bookings')}]_vars

\* C15: the reminder of booking 1 is recorded in the reminder store only,
\* an approval run is sending the confirmation of the same booking, and a
\* reminder cycle is in flight at the same time
C15_Witness ==
  /\ reminderKey(bookings[1]) \in sentReminders
  /\ reminderKey(bookings[1]) \in DOMAIN remindersFile.items
  /\ confirmationKey(bookings[1]) \notin sentConfirmations
  /\ \E a \in Slots :
       /\ approvals[a].pc = "send"
       /\ approvals[a].bookings[approvals[a].ki].id = 1
  /\ \E c \in Slots : cycles[c].pc = "send"

\* C20, as stated: a key that loadSentItems dropped for its age is never
\* sent for again, be it the key of a reminder or of a confirmation.
C20_PrunedNeverResent ==
  [][/\ \A c \in Slots : Invoked(c) => sendingKey(cycles'[c]) \notin pruned'
     /\ \A c \in Slots :
          InvokedConfirmation(c) => confirmingKey(approvals'[c]) \notin pruned']_vars

\* the step is a start of the process
Started == ~up /\ up'

\* C16, as stated: a load that succeeds returns exactly the keys of the
\* records not older than 7 days, drops exactly the older ones, and leaves
\* the file holding exactly the survivors with their original times.
C16_LoadKeepsUpToSevenDays ==
  [][Started /\ remindersFile.state = "ok" /\ ~loadError'
       => LET kept == {k \in DOMAIN remindersFile.items :
                         clock' - remindersFile.items[k] <= SEVEN_DAYS}
          IN  /\ sentReminders' = kept
              /\ remindersFile' =
                   [state |-> "ok",
                    items |-> [k \in kept |-> remindersFile.items[k]]]]_vars

\* C17: a start never fails on its store.  When the file is missing or
\* cannot be parsed, or reading it throws, the process is up with the empty
\* set, the file as it was, its first cycle in flight and its timer set.
C17_LoadNeverFailsStartup ==
  [][Started
       => /\ cycles'[1] = newCycle(clock')
          /\ reminderTimer'.kind # "none"
          /\ remindersFile.state \in {"missing", "corrupt"} \/ loadError'
               => sentReminders' = {} /\ remindersFile' = remindersFile]_vars

\* C17: the process found a file it could not parse or read, holds the
\* empty set and is sending the reminder of a booking
C17_Witness ==
  /\ up
  /\ loadError
  /\ remindersFile.state \in {"corrupt", "ok"}
  /\ sentReminders = {}
  /\ \E c \in Slots : cycles[c].pc = "send"

\* the step is the return of a send that returns true to run c
SucceededReturn(c) ==
  /\ up'
  /\ cycles[c].pc = "send"
  /\ cycles[c].resp = "ok"
  /\ cycles'[c] # cycles[c]

\* C18: when a send returned true and the file did not take the key, the
\* process stays up, the key is in the in-memory set, the loop goes on with
\* the next booking, and the sender is not invoked again for a key whose
\* send returned true in the same process.
C18_SaveFailureKeepsKeyInMemory ==
  [][/\ \A c \in Slots :
          SucceededReturn(c) /\ remindersFile' = remindersFile
            => /\ sendingKey(cycles[c]) \in sentReminders'
               /\ cycles'[c] = afterBooking(service,
                                            counted(cycles[c], cycles[c].resp = "ok"),
                                            cycles[c].ki + 1, sentReminders')
     /\ \A c \in Slots :
          Invoked(c) => Outcome(sendingKey(cycles'[c]), "success") \notin sends]_vars

\* C18: the send for booking 1 returned true, the file did not take its key,
\* the key is in the in-memory set and the cycle is sending for booking 2
C18_Witness ==
  /\ up
  /\ Outcome(reminderKey(bookings[1]), "success") \in sends
  /\ reminderKey(bookings[1]) \in sentReminders
  /\ reminderKey(bookings[1]) \notin DOMAIN remindersFile.items
  /\ \E c \in Slots :
       /\ cycles[c].pc = "send"
       /\ cycles[c].ki = 2
       /\ cycles[c].bookings[1] = bookings[1]

Tolerance(svc) ==
  IF HourGranular(svc) THEN ToleranceHours * Hour
  ELSE ToleranceMinutes(svc) * Minute

\* C21, as stated: in every pairing of scheduler and window the code holds,
\* the poll interval is strictly smaller than twice the tolerance of the
\* window, so that no window can fall between two polls.
C21_IntervalBelowTwiceTolerance ==
  ReminderInterval(service) < 2 * Tolerance(service)

\* the timer of a cadence is due now
ReminderDue == up /\ reminderTimer.kind # "none" /\ clock = reminderTimer.due
ApprovalDue == up /\ approvalTimer.kind # "none" /\ clock = approvalTimer.due

\* C22: a fixed-interval service starts a cycle (and, with the confirmation
\* cadence, an approval run) in the step that starts the process; while the
\* process is up each cadence has its interval timer set, due at most one
\* interval ahead; and whenever a timer is due, a new cycle or run is
\* started at that time and the timer is set one interval later, unless the
\* process is stopped first, however the earlier cycles ended.
C22_FixedIntervalKeepsFiring ==
  /\ [][Started
          => /\ cycles'[1] = newCycle(clock')
             /\ (RunsApprovals => approvals'[1] = newApproval(clock'))]_vars
  /\ [](up => (/\ reminderTimer.kind = "interval"
               /\ reminderTimer.due - clock \in 0..ONE_HOUR
               /\ (RunsApprovals
                     => /\ approvalTimer.kind = "interval"
                        /\ approvalTimer.due - clock \in 0..ONE_MINUTE)))
  /\ ReminderDue
       ~> \/ ~up
          \/ /\ reminderTimer.due = clock + ONE_HOUR
             /\ \E c \in Slots : cycles[c] = newCycle(clock)
  /\ ApprovalDue
       ~> \/ ~up
          \/ /\ approvalTimer.due = clock + ONE_MINUTE
             /\ \E c \in Slots : approvals[c] = newApproval(clock)

\* C22: the first cycle ended without a send although booking 1 was in its
\* window (a fetch failed or returned nothing), and one hour after the
\* start the timer has started the next cycle
C22_Witness ==
  /\ up
  /\ sends = {}
  /\ shouldSend(service, businesses[1], bookings[1], FirstStart)
  /\ clock = FirstStart + ONE_HOUR
  /\ reminderTimer.due = clock + ONE_HOUR
  /\ \E c \in Slots : cycles[c] = newCycle(clock)

\* the slot size as a time
Slot == SlotMinutes * Minute

\* C23: a clock-aligned service started at any minute and second sets a
\* timeout whose delay is greater than 0 and at most 15 minutes and that is
\* due exactly on a :00/:15/:30/:45 boundary; the timeout fires once, at
\* that time, and from then on every firing starts a cycle and sets the
\* timer 15 minutes after the firing before.
C23_NextSlotExactly ==
  [][/\ Started /\ ClockAligned(service)
          => /\ reminderTimer'.kind = "timeout"
             /\ reminderTimer'.due - clock' > 0
             /\ reminderTimer'.due - clock' <= Slot
             /\ reminderTimer'.due % Slot = 0
     /\ up /\ up' /\ reminderTimer' # reminderTimer
          => /\ clock = reminderTimer.due
             /\ reminderTimer' = [kind |-> "interval",
                                  due |-> reminderTimer.due + Slot]
             /\ \E c \in Slots : cycles'[c] = newCycle(clock)]_vars

\* C23: the process was started exactly on a boundary, waited the full 15
\* minutes, and its timeout has fired and left the interval timer
C23_Witness ==
  /\ up
  /\ origin % Slot = 0
  /\ clock = origin + Slot
  /\ reminderTimer = [kind |-> "interval", due |-> clock + Slot]
  /\ \E c \in Slots : cycles[c] = newCycle(clock)

\* C24: a fetch that fails has no effect and ends nothing but itself.  A
\* cycle that ends at the return of fetchBusinesses leaves the set, the file
\* and the sends as they were; a return of fetchBookings that leads to no
\* send (the fetch failed or gave no candidate) leaves them as they were
\* too, and the cycle goes on with the next enabled business of its list,
\* or ends when there is none; the process stays up.
C24_FetchFailureHarmless ==
  [][\A c \in Slots :
       /\ up' /\ cycles[c].pc = "fetchBusinesses" /\ cycles'[c].pc = "idle"
            => UNCHANGED <<sentReminders, remindersFile, sends>>
       /\ up' /\ cycles[c].pc = "fetchBookings" /\ cycles'[c] # cycles[c]
               /\ ~Invoked(c)
            => /\ UNCHANGED <<sentReminders, remindersFile, sends>>
               /\ LET list == cycles[c].businesses
                      later == {j \in (cycles[c].bi + 1)..Len(list) :
                                  list[j].reminder_enabled # "false"}
                  IN  IF later = {} THEN cycles'[c].pc = "idle"
                      ELSE /\ cycles'[c].pc = "fetchBookings"
                           /\ cycles'[c].bi = Min(later)]_vars

\* C24: booking 1 of business 1 is confirmed and in its window and nothing
\* was ever sent or recorded for it, yet the cycle has gone on to business 2
\* and is sending for its booking: fetchBookings of business 1 failed
C24_Witness ==
  \E c \in Slots :
    /\ cycles[c].pc = "send"
    /\ cycles[c].bi = 2
    /\ cycles[c].bookings[cycles[c].ki].business_id = 2
    /\ bookings[1].business_id = 1
    /\ candidate(service, bookings[1])
    /\ shouldSend(service, businesses[1], bookings[1], cycles[c].now)
    /\ reminderKey(bookings[1]) \notin KnownKeys

\* a credential the service reads from the environment is not set
MissingCredential == \E c \in Required(service) : c \notin env

\* C25: when a credential the service requires is missing, starting the
\* process makes it exit with status 1 without loading the dedup store,
\* starting a cycle, setting a timer or listening, and at no time is such a
\* process running, listening, holding a loaded store or sending
C25_MissingCredentialExits ==
  /\ [][(MissingCredential /\ starts' # starts)
          => (/\ exits' = Append(exits, 1)
              /\ ~up'
              /\ ~listening'
              /\ UNCHANGED <<storeVars, sentConfirmations, confirmationsFile,
                             cycles, approvals, reminderTimer, approvalTimer,
                             loadError, pruned, sends>>)]_vars
  /\ [](MissingCredential
          => (/\ ~up
              /\ ~listening
              /\ sends = {}
              /\ InFlight(cycles) = {}
              /\ reminderTimer = NoTimer
              /\ remindersFile = MissingFile
              /\ \A i \in 1..Len(exits) : exits[i] # 0))

\* a WhatsApp process found a credential missing and has exited with 1
C25_Witness ==
  /\ HasApi(service)
  /\ MissingCredential
  /\ starts = 1
  /\ exits = <<1>>

\* C26: a request to one of the three POST routes without the shared secret
\* in its x-api-key header is answered with 401 and the sender is not invoked
C26_UnauthenticatedRejected ==
  (http.pc # "idle" /\ http.req.route \in ControlRoutes /\ http.req.apiKey # API_KEY)
    => (http.pc = "done" /\ http.status = 401 /\ http.invoked = 0)

\* the routes that send one message to the phone of the body
SingleRoutes == {"/api/send-confirmation", "/api/send-update"}

\* a required field of a single-message route is missing from the body
Malformed(req) ==
  /\ req.route \in SingleRoutes
  /\ \E f \in RequiredFields(service, req.route) : f \notin req.body

\* C29: a send-confirmation or send-update request carrying the shared
\* secret with a required field missing is answered with 400 whatever its
\* other fields are and sends nothing, and such a request whose send failed
\* is answered with 500
C29_MalformedGets400 ==
  /\ (http.pc # "idle" /\ http.req.apiKey = API_KEY /\ Malformed(http.req))
       => (http.pc = "done" /\ http.status = 400 /\ http.invoked = 0)
  /\ (http.pc = "done" /\ http.req.route \in SingleRoutes /\ http.failed > 0)
       => http.status = 500

\* the lead time a business is configured with, 12 hours when it has none
configuredLead(biz) ==
  IF biz.reminder_hours_set THEN biz.reminder_hours_before
  ELSE DefaultReminderHours

\* C27: every send in flight is for a booking whose distance from its
\* cycle's now is the configured lead time of its business (12 hours when
\* none is configured), within the tolerance of the window and the hour the
\* hour-granular services round by; its business is not explicitly disabled
C27_ConfiguredLeadUsed ==
  \A c \in Slots :
    cycles[c].pc = "send" =>
      LET biz == cycles[c].businesses[cycles[c].bi]
          until == bookingDateTime(cycles[c].bookings[cycles[c].ki]) - cycles[c].now
      IN  /\ until > configuredLead(biz) * Hour - Tolerance(service) - Hour
          /\ until < configuredLead(biz) * Hour + Tolerance(service) + Hour
          /\ biz.reminder_enabled # "false"

\* the number formatPhoneNumber was first applied to has been formatted
Formatted == Len(formattedNumber) >= 1

\* the digits of a number less one leading 0
localDigits(phone) ==
  LET digits == stripNonDigits(phone)
  IN  IF Len(digits) > 0 /\ Head(digits) = "0" THEN Tail(digits) ELSE digits

\* C28: the formatted number is "+" and digits only: the digits of the
\* input less one leading 0, with 972 put in front exactly when they do not
\* begin with 972; '050-123-4567' and '0501234567' both give
\* '+972501234567'; a number that carries the country code is not prefixed
\* again; formatting the result again returns it unchanged
C28_PhoneNormalized ==
  /\ (Formatted /\ toNumber # <<>>) =>
       LET out == formattedNumber[1]
           rest == localDigits(toNumber)
       IN  /\ Head(out) = "+"
           /\ \A i \in 2..Len(out) : out[i] \in Digits
           /\ startsWith(rest, CountryCode) => Tail(out) = rest
           /\ ~startsWith(rest, CountryCode) => Tail(out) = CountryCode \o rest
  /\ (Formatted /\ toNumber \in {Dashed, Undashed}) =>
       formattedNumber[1] =
         <<"+", "9", "7", "2", "5", "0", "1", "2", "3", "4", "5", "6", "7">>
  /\ Len(formattedNumber) = 2 => formattedNumber[2] = formattedNumber[1]

\* '050-123-4567' has been formatted twice and gave '+972501234567' both
\* times
C28_Witness ==
  /\ toNumber = Dashed
  /\ Len(formattedNumber) = 2
  /\ formattedNumber[2] =
       <<"+", "9", "7", "2", "5", "0", "1", "2", "3", "4", "5", "6", "7">>

\* a number already carrying the country code has been formatted
C28_WitnessCountryCode ==
  /\ toNumber = <<"+", "9", "7", "2", "5">>
  /\ Formatted
  /\ formattedNumber[1] = toNumber

\* C30: the bookings the loop passes over (not in-window, or in-window with
\* their key in the store) leave no trace. The step in which fetchBookings
\* returns evaluates bookings up to the first send and changes neither the
\* set, the file nor the sent counter; the step in which a send returns
\* changes them by the booking that was sent alone, whatever bookings it
\* evaluates afterwards; and the sender is only ever invoked for a booking
\* that is in-window and whose key is not in the set
C30_SkippedBookingChangesNothing ==
  [][\A c \in Slots :
       LET run == cycles[c]
           after == cycles'[c]
       IN  /\ (run.pc = "fetchBookings" /\ after # run /\ up') =>
                /\ UNCHANGED <<sentReminders, remindersFile, sends>>
                /\ after.pc # "idle" => after.sent = run.sent
           /\ (run.pc = "send" /\ after # run /\ up') =>
                /\ sentReminders' \ sentReminders \subseteq {sendingKey(run)}
                /\ DOMAIN remindersFile'.items \ DOMAIN remindersFile.items
                     \subseteq {sendingKey(run)}
                /\ after.pc # "idle" =>
                     after.sent = run.sent
                       + (IF run.resp = "ok" /\ after.resp # "ok" THEN 1 ELSE 0)
           /\ Invoked(c) =>
                /\ shouldSend(service, after.businesses[after.bi],
                              after.bookings[after.ki], after.now)
                /\ sendingKey(after) \notin sentReminders']_vars

\* a run has passed over booking 1, which is not in-window, and is sending
\* for booking 2: nothing is in the set or the file and the counter is 0
C30_Witness ==
  \E c \in Slots :
    /\ cycles[c].pc = "send"
    /\ cycles[c].ki = 2
    /\ ~shouldSend(service, cycles[c].businesses[cycles[c].bi],
                   cycles[c].bookings[1], cycles[c].now)
    /\ cycles[c].sent = 0
    /\ sentReminders = {}
    /\ remindersFile = MissingFile

\* a later run has passed over booking 1, in-window with its key in the
\* set since before the run began, and is sending for booking 2
C30_WitnessKnownKey ==
  \E c \in Slots :
    /\ cycles[c].pc = "send"
    /\ cycles[c].ki = 2
    /\ cycles[c].started > FirstStart
    /\ InFlight(cycles) = {c}
    /\ shouldSend(service, cycles[c].businesses[cycles[c].bi],
                  cycles[c].bookings[1], cycles[c].now)
    /\ sentReminders = {reminderKey(cycles[c].bookings[1])}
    /\ cycles[c].sent = 0

\* the ids of the businesses the provider lists
ListedIds == {businesses[j].id : j \in 1..Len(businesses)}

\* C31: the sender is invoked for a reminder only by the run evaluating the
\* business the booking belongs to, which is not disabled and in whose
\* window (by its own lead time) the booking lies; a confirmation is sent
\* only for a booking of a listed business; and no send and no record ever
\* carries the key of a booking whose business_id matches no listed business
C31_TenantsIsolated ==
  /\ [][\A c \in Slots :
          /\ Invoked(c) =>
               LET biz == cycles'[c].businesses[cycles'[c].bi]
                   b == cycles'[c].bookings[cycles'[c].ki]
               IN  /\ biz.id = b.business_id
                   /\ biz = businessOf(b)
                   /\ biz.reminder_enabled # "false"
                   /\ shouldSend(service, businessOf(b), b, cycles'[c].now)
          /\ InvokedConfirmation(c) =>
               approvals'[c].bookings[approvals'[c].ki].business_id \in ListedIds]_vars
  /\ [](\A i \in 1..Len(bookings) :
          bookings[i].business_id \notin ListedIds =>
            /\ reminderKey(bookings[i]) \notin KnownKeys
            /\ confirmationKey(bookings[i])
                 \notin ({s.key : s \in sends} \cup sentConfirmations
                           \cup DOMAIN confirmationsFile.items))

\* business 2 is disabled and has a lead time of 12 hours; booking 2, of no
\* listed business, lies in the window of that lead time; the reminder of
\* booking 1 of business 1 was sent and a run has ended since
C31_Witness ==
  /\ businesses[2].reminder_enabled = "false"
  /\ businesses[2].reminder_hours_before = 0
  /\ bookings[2].business_id \notin ListedIds
  /\ bookings[2].time = TimeOf(0, SecondOffset(service))
  /\ Outcome(reminderKey(bookings[1]), "success") \in sends
  /\ InFlight(cycles) = {}

\* the step is sentReminders.add and saveSentItem for a key this process
\* has recorded before: the send of run c returns true and its key is in
\* the in-memory set already
RecordedAgain(c) ==
  /\ SucceededReturn(c)
  /\ sendingKey(cycles[c]) \in sentReminders

OptedOut(b) == b.whatsapp_notifications_enabled = "false"

\* C33: in the WhatsApp+API service no run is ever sending a reminder for a
\* booking whose whatsapp_notifications_enabled is false, and no send, no
\* key of the in-memory set and no record of the file carries its key; a
\* confirmed booking with a phone and without the flag is sent for when its
\* run reaches it in-window with its key not in the set
C33_OptOutRespected ==
  service = "whatsapp_api" =>
    /\ \A c \in Slots :
         cycles[c].pc = "send" => ~OptedOut(cycles[c].bookings[cycles[c].ki])
    /\ \A i \in 1..Len(bookings) :
         OptedOut(bookings[i]) => reminderKey(bookings[i]) \notin KnownKeys
    /\ \A c \in Slots :
         cycles[c].pc = "send" =>
           \A j \in 1..(cycles[c].ki - 1) :
             LET b == cycles[c].bookings[j]
             IN  (/\ b.status = "confirmed"
                  /\ b.client_phone
                  /\ b.whatsapp_notifications_enabled = "unset"
                  /\ shouldSend(service, cycles[c].businesses[cycles[c].bi], b,
                                cycles[c].now))
                   => reminderKey(b) \in KnownKeys

\* the WhatsApp+API service has passed over booking 1, in-window and opted
\* out, and its send for booking 2, which carries no flag, returned true
C33_Witness ==
  /\ service = "whatsapp_api"
  /\ OptedOut(bookings[1])
  /\ shouldSend(service, businessOf(bookings[1]), bookings[1], FirstStart)
  /\ bookings[2].whatsapp_notifications_enabled = "unset"
  /\ Outcome(reminderKey(bookings[2]), "success") \in sends
  /\ reminderKey(bookings[1]) \notin KnownKeys

\* a broadcast is waiting for the transport to take the message to a
\* recipient whose whatsappEnabled is false
BroadcastToOptedOut ==
  /\ http.pc = "send"
  /\ http.req.route = "/api/send-broadcast"
  /\ http.current.whatsappEnabled = "false"

\* a broadcast over the array of its body has answered with its counts
BroadcastAnswered ==
  /\ http.pc = "done"
  /\ http.req.route = "/api/send-broadcast"
  /\ http.status = 200
  /\ (service = "whatsapp_api" => "clients" \in http.req.body)

\* the counts of an answered broadcast cover every recipient of the array
\* exactly once
C34_CountsAccount ==
  BroadcastAnswered
    => http.sent + http.failed + http.skipped = Len(http.req.list)

\* C34: a broadcast never sends to a recipient whose whatsappEnabled is
\* false, and sent + failed + skipped of its answer is the number of the
\* recipients supplied, in both services with /api/send-broadcast
C34_BroadcastRespectsOptOut ==
  /\ ~BroadcastToOptedOut
  /\ C34_CountsAccount

\* a booking the loop of processBusinessReminders would send for at a time
\* if it were handed it: of the business, confirmed, with a phone, in the
\* window
DueFor(biz, b, now) ==
  /\ b.business_id = biz.id
  /\ b.status = "confirmed"
  /\ b.client_phone
  /\ shouldSend(service, biz, b, now)

\* the step is the return of fetchBookings to run c with the list the
\* provider's data gives
FetchedBookings(c) ==
  LET run == cycles[c]
      biz == run.businesses[run.bi]
      list == fetchBookings(service, bookings, biz.id, clock)
  IN  /\ up'
      /\ run.pc = "fetchBookings"
      /\ cycles'[c] = afterBooking(service,
                         [run EXCEPT !.bookings = list, !.now = clock],
                         1, sentReminders)

\* C35: the 48-hour filter of fetchBookings of the WhatsApp service never
\* drops a booking that is in its trigger window: whenever fetchBookings
\* returns its list to a cycle, every confirmed booking of the business with
\* a phone whose minutesUntil is within the window is in that list
C35_PrefilterKeepsInWindow ==
  [][\A c \in Slots :
       (service = "whatsapp" /\ FetchedBookings(c)) =>
         LET biz == cycles[c].businesses[cycles[c].bi]
             list == fetchBookings(service, bookings, biz.id, clock)
         IN  \A i \in 1..Len(bookings) :
               DueFor(biz, bookings[i], clock)
                 => \E j \in 1..Len(list) : list[j] = bookings[i]]_vars

\* the same for the lead times below 46 hours
C35_ShortLeadsKept ==
  [][\A c \in Slots :
       (service = "whatsapp" /\ FetchedBookings(c)) =>
         LET biz == cycles[c].businesses[cycles[c].bi]
             list == fetchBookings(service, bookings, biz.id, clock)
         IN  reminderHours(biz) < 46 =>
               \A i \in 1..Len(bookings) :
                 DueFor(biz, bookings[i], clock)
                   => \E j \in 1..Len(list) : list[j] = bookings[i]]_vars

\* C36: the in-memory set mirrors the durable store: while the process runs,
\* every key of the reminder file is in the set the cycle consults, also
\* after a loadSentItems whose write-back failed
C36_MemoryMirrorsFile ==
  up => DOMAIN remindersFile.items \subseteq sentReminders

\* the same for the processes whose loadSentItems met no error
C36_MirrorsAfterCleanLoad ==
  (up /\ ~loadError) => DOMAIN remindersFile.items \subseteq sentReminders

\* the process loaded its store from a file JSON.parse rejects
CorruptLoad == up /\ loadError /\ remindersFile.state = "corrupt"

\* C37: after a load that degraded to the empty set because the file was
\* corrupt, recording is durable again: when a send has returned true and
\* saveSentItem has returned, the key of the send is in the file
C37_DurableAfterCorruptLoad ==
  [][\A c \in Slots :
       (CorruptLoad /\ SucceededReturn(c))
         => sendingKey(cycles[c]) \in DOMAIN remindersFile'.items]_vars

\* what holds instead: the key is in the in-memory set, and the file is as
\* corrupt as it was
C37_CorruptFileStaysCorrupt ==
  [][\A c \in Slots :
       (CorruptLoad /\ SucceededReturn(c))
         => /\ sendingKey(cycles[c]) \in sentReminders'
            /\ remindersFile' = remindersFile]_vars

====
